---------------------------- MODULE Spec2Model ----------------------------
(***************************************************************************)
(* Model of the lft2 backtest engine: run_backtest (src/src/backtest.cxx)  *)
(* with the bar validity check (bar.h), the exit check (exit.h), the       *)
(* level calculation (params.h), the entry rules (entry.h) with the square *)
(* root they use (nstd.h), the session calendar (market.h) and the         *)
(* strategy filter of backtest/main.cxx.                                   *)
(*                                                                         *)
(* Numbers.  The code computes in double.  The model computes the same     *)
(* expressions exactly, over integers:                                     *)
(*   - a price is an integer number of price units;                        *)
(*   - the three parameters of default_params are integers over Scale      *)
(*     (0.0125 = 125/Scale), and the three levels of a position are kept   *)
(*     multiplied by Scale, so "price >= pos.take_profit" is               *)
(*     "price * Scale >= pos.take_profit";                                 *)
(*   - a percentage such as gain_pct is a fraction [n, d] with d > 0.      *)
(* Floating-point rounding is therefore not modelled.  The one iteration   *)
(* of the code that stops on an absolute tolerance, nstd::sqrt, is         *)
(* modelled step by step in fixed point where its early stop shows (prices *)
(* in units of 0.0001 and 0.00001, see mean_reversion).                    *)
(*                                                                         *)
(* A std::string_view is a sequence of one-character strings, so that      *)
(* size(), operator[] and substr() are modelled by what they do.  A bar's  *)
(* timestamp member is a view into text stored elsewhere: the model keeps  *)
(* the name of the text in the bar and the characters in TimestampText.    *)
(* Indices of the code are 0-based; Bar(bs, k) is bars[k].                 *)
(***************************************************************************)
EXTENDS Integers, Sequences, FiniteSets, TLC

VARIABLES
  pc,               \* where run_backtest is: "start", "loop", "done";
                    \* "probe", "probed" in the check_exit specification
  bars,             \* the bar series given to run_backtest
  i,                \* the loop index of the trading simulation (line 175)
  in_position,      \* backtest.cxx:104
  current_position, \* backtest.cxx:105
  entry_bar_idx,    \* backtest.cxx:106
  trades,           \* backtest.cxx:103
  positions_opened, \* number of positions created so far (line 188)
  analysis,         \* what lines 109-157 computed: intraday extremes, best entry
  result,           \* the backtest_result being filled
  exit_result,      \* what check_exit and is_exit returned in the probe
  price_unit,       \* how many price units of the model make 1.0
  verdict,          \* what the entry rules and is_valid returned in the probes
  results,          \* backtest/main.cxx:55, the StrategyResult list
  recommendations,  \* backtest/main.cxx:66
  timestamp_arg     \* the timestamp given to the market.h functions

\* The state that run_backtest does not touch.
probe_vars == <<price_unit, verdict, results, recommendations, timestamp_arg>>

vars == <<pc, bars, i, in_position, current_position, entry_bar_idx, trades,
          positions_opened, analysis, result, exit_result, probe_vars>>

---------------------------------------------------------------------------
(* Bounds of the model *)

\* Number of bars that follow the flat lookback prefix in a full series.
TailLen == 4

\* Length of the short series (fewer bars than the simulator's lookback).
ShortLen == 3

---------------------------------------------------------------------------
(* Arithmetic helpers *)

Min(a, b) == IF a <= b THEN a ELSE b

Abs(a) == IF a < 0 THEN -a ELSE a

RECURSIVE GCD(_, _)
GCD(a, b) == IF b = 0 THEN a ELSE GCD(b, a % b)

\* A fraction n/d with d > 0, reduced.
Rat(n, d) ==
  LET g == GCD(Abs(n), d)
  IN  IF n = 0 THEN [n |-> 0, d |-> 1] ELSE [n |-> n \div g, d |-> d \div g]

RatZero == [n |-> 0, d |-> 1]

RatLess(a, b) == a.n * b.d < b.n * a.d

RatAdd(a, b) == Rat(a.n * b.d + b.n * a.d, a.d * b.d)

RatMul(a, b) == Rat(a.n * b.n, a.d * b.d)

RatAbs(a) == [n |-> Abs(a.n), d |-> a.d]

RatMax(a, b) == IF RatLess(a, b) THEN b ELSE a

RatMin(a, b) == IF RatLess(b, a) THEN b ELSE a

RECURSIVE SeqSum(_)
SeqSum(s) == IF s = <<>> THEN 0 ELSE s[1] + SeqSum(Tail(s))

RECURSIVE RatSeqSum(_)
RatSeqSum(s) == IF s = <<>> THEN RatZero ELSE RatAdd(s[1], RatSeqSum(Tail(s)))

---------------------------------------------------------------------------
(* std::string_view as a sequence of characters *)

\* string_view::substr(pos, n) for pos <= size(): at most n characters.
substr(s, pos, n) == SubSeq(s, pos + 1, Min(pos + n, Len(s)))

\* c - '0' for a decimal digit, -1 for any other character (c < '0' || c > '9').
DigitVal(c) ==
  CASE c = "0" -> 0 [] c = "1" -> 1 [] c = "2" -> 2 [] c = "3" -> 3
    [] c = "4" -> 4 [] c = "5" -> 5 [] c = "6" -> 6 [] c = "7" -> 7
    [] c = "8" -> 8 [] c = "9" -> 9 [] OTHER -> -1

---------------------------------------------------------------------------
(* The timestamp texts the bars of the model refer to *)

Date1 == <<"2", "0", "2", "6", "-", "0", "2", "-", "1", "6">>
Date2 == <<"2", "0", "2", "6", "-", "0", "2", "-", "1", "7">>

Stamp(date, h1, h2, m1, m2) ==
  date \o <<"T", h1, h2, ":", m1, m2, ":", "0", "0", "Z">>

\* "on": 16:00 UTC, inside the risk-on window.
\* "off": 20:45 UTC of the same day, the last half hour of the session.
\* "next": 13:00 UTC of the next day, before the market opens.
\* "short": a text too short to be a timestamp.
\* "empty": no text.  "millis": 24 characters, with milliseconds.
\* "slash4", "slash7": 20 characters with '/' for the first or second '-'.
\* "compact": "20260216T16:00:00Z", 18 characters without dashes.
TimestampText ==
  [on |-> Stamp(Date1, "1", "6", "0", "0"),
   off |-> Stamp(Date1, "2", "0", "4", "5"),
   next |-> Stamp(Date2, "1", "3", "0", "0"),
   short |-> Date1,
   empty |-> <<>>,
   millis |-> Date1 \o <<"T", "1", "6", ":", "0", "0", ":", "0", "0", ".",
                          "0", "0", "0", "Z">>,
   slash4 |-> Stamp(<<"2", "0", "2", "6", "/", "0", "2", "-", "1", "6">>,
                    "1", "6", "0", "0"),
   slash7 |-> Stamp(<<"2", "0", "2", "6", "-", "0", "2", "/", "1", "6">>,
                    "1", "6", "0", "0"),
   compact |-> <<"2", "0", "2", "6", "0", "2", "1", "6", "T", "1", "6", ":",
                 "0", "0", ":", "0", "0", "Z">>]

\* The characters of a bar's timestamp.
chars(ts) == TimestampText[ts]

---------------------------------------------------------------------------
(* bar.h *)

\* struct bar: the record fields are those of the struct.
bar(c, h, l, o, vw, v, n, ts) ==
  [close |-> c, high |-> h, low |-> l, open |-> o, vwap |-> vw,
   volume |-> v, num_trades |-> n, timestamp |-> ts]

is_valid(b) ==
  IF ~(b.high >= b.close /\ b.high >= b.open /\ b.high >= b.low /\
       b.low <= b.close /\ b.low <= b.open)
  THEN FALSE
  ELSE IF b.close <= 0 \/ b.high <= 0 \/ b.low <= 0 \/ b.open <= 0
  THEN FALSE
  ELSE IF b.vwap > 0 /\ (b.vwap < b.low \/ b.vwap > b.high)
  THEN FALSE
  ELSE IF Len(chars(b.timestamp)) = 0 \/ Len(chars(b.timestamp)) < 20
  THEN FALSE
  ELSE IF Len(chars(b.timestamp)) >= 10 /\
          (chars(b.timestamp)[5] # "-" \/ chars(b.timestamp)[8] # "-")
  THEN FALSE
  ELSE TRUE

\* bars[k], 0-based.
Bar(bs, k) == bs[k + 1]

---------------------------------------------------------------------------
(* market.h *)

MARKET_OPEN_HOUR == 14
MARKET_OPEN_MINUTE == 30
MARKET_CLOSE_HOUR == 21
MARKET_CLOSE_MINUTE == 0
RISK_ON_DELAY_MINUTES == 60
RISK_OFF_ADVANCE_MINUTES == 30
LIQUIDATE_ADVANCE_MINUTES == 10

\* The digit loop shared by extract_hour and extract_minute.
RECURSIVE ParseDigits(_, _)
ParseDigits(str, acc) ==
  IF str = <<>> THEN acc
  ELSE IF DigitVal(str[1]) < 0 THEN -1
  ELSE ParseDigits(Tail(str), acc * 10 + DigitVal(str[1]))

extract_hour(timestamp) ==
  IF Len(timestamp) < 14 THEN -1 ELSE ParseDigits(substr(timestamp, 11, 2), 0)

extract_minute(timestamp) ==
  IF Len(timestamp) < 17 THEN -1 ELSE ParseDigits(substr(timestamp, 14, 2), 0)

to_minutes_utc(hour, minute) == hour * 60 + minute

market_close(timestamp) ==
  LET hour == extract_hour(timestamp)
      minute == extract_minute(timestamp)
  IN  IF hour < 0 \/ minute < 0 THEN FALSE
      ELSE to_minutes_utc(hour, minute) >=
             to_minutes_utc(MARKET_CLOSE_HOUR, MARKET_CLOSE_MINUTE)

liquidation_time(timestamp) ==
  LET hour == extract_hour(timestamp)
      minute == extract_minute(timestamp)
  IN  IF hour < 0 \/ minute < 0 THEN FALSE
      ELSE to_minutes_utc(hour, minute) >=
             to_minutes_utc(MARKET_CLOSE_HOUR, MARKET_CLOSE_MINUTE)
               - LIQUIDATE_ADVANCE_MINUTES

\* The session taken to include the closing minute.
market_open_through_close(timestamp) ==
  LET hour == extract_hour(timestamp)
      minute == extract_minute(timestamp)
      current == to_minutes_utc(hour, minute)
  IN  IF hour < 0 \/ minute < 0 THEN FALSE
      ELSE current >= to_minutes_utc(MARKET_OPEN_HOUR, MARKET_OPEN_MINUTE) /\
           current <= to_minutes_utc(MARKET_CLOSE_HOUR, MARKET_CLOSE_MINUTE)

market_open(timestamp) ==
  LET hour == extract_hour(timestamp)
      minute == extract_minute(timestamp)
      current == to_minutes_utc(hour, minute)
  IN  IF hour < 0 \/ minute < 0 THEN FALSE
      ELSE current >= to_minutes_utc(MARKET_OPEN_HOUR, MARKET_OPEN_MINUTE) /\
           current < to_minutes_utc(MARKET_CLOSE_HOUR, MARKET_CLOSE_MINUTE)

risk_on(timestamp) ==
  LET hour == extract_hour(timestamp)
      minute == extract_minute(timestamp)
      current == to_minutes_utc(hour, minute)
      risk_on_start == to_minutes_utc(MARKET_OPEN_HOUR, MARKET_OPEN_MINUTE)
                         + RISK_ON_DELAY_MINUTES
      risk_off_start == to_minutes_utc(MARKET_CLOSE_HOUR, MARKET_CLOSE_MINUTE)
                          - RISK_OFF_ADVANCE_MINUTES
  IN  IF hour < 0 \/ minute < 0 THEN FALSE
      ELSE current >= risk_on_start /\ current < risk_off_start

risk_off(timestamp) ==
  IF ~market_open(timestamp) THEN FALSE ELSE ~risk_on(timestamp)

---------------------------------------------------------------------------
(* params.h *)

\* Denominator of the three percentages of default_params and of the levels.
Scale == 10000

take_profit_pct == 125
stop_loss_pct == 125
trailing_stop_pct == 100

default_params ==
  [take_profit_pct |-> take_profit_pct, stop_loss_pct |-> stop_loss_pct,
   trailing_stop_pct |-> trailing_stop_pct]

\* The levels with the stop loss no further from the entry than the trailing
\* stop, as for stop_loss_pct = trailing_stop_pct.
calculate_levels_stop_at_trailing(entry_price, params) ==
  [take_profit |-> entry_price * (Scale + params.take_profit_pct),
   stop_loss |-> entry_price * (Scale - params.trailing_stop_pct),
   trailing_stop |-> entry_price * (Scale - params.trailing_stop_pct)]

\* The three levels, each multiplied by Scale.
calculate_levels(entry_price, params) ==
  [take_profit |-> entry_price * (Scale + params.take_profit_pct),
   stop_loss |-> entry_price * (Scale - params.stop_loss_pct),
   trailing_stop |-> entry_price * (Scale - params.trailing_stop_pct)]

---------------------------------------------------------------------------
(* exit.h *)

\* struct position: entry_price in price units, the levels times Scale.
position(e, tp, sl, ts) ==
  [entry_price |-> e, take_profit |-> tp, stop_loss |-> sl, trailing_stop |-> ts]

exit_reason ==
  {"none", "take_profit", "stop_loss", "trailing_stop", "risk_off", "end_of_data"}

\* take_profit only strictly above the level.
check_exit_strict_take_profit(pos, current) ==
  IF ~is_valid(current) THEN "none"
  ELSE LET price == current.close * Scale
       IN  IF price > pos.take_profit THEN "take_profit"
           ELSE IF price <= pos.stop_loss THEN "stop_loss"
           ELSE IF price <= pos.trailing_stop THEN "trailing_stop"
           ELSE "none"

check_exit(pos, current) ==
  IF ~is_valid(current) THEN "none"
  ELSE LET price == current.close * Scale
       IN  IF price >= pos.take_profit THEN "take_profit"
           ELSE IF price <= pos.stop_loss THEN "stop_loss"
           ELSE IF price <= pos.trailing_stop THEN "trailing_stop"
           ELSE "none"

is_exit(pos, current) == check_exit(pos, current) # "none"

---------------------------------------------------------------------------
(* nstd.h *)

\* The fine scale of prices: one price unit is 0.0001, the threshold of
\* mean_reversion.
FinePriceUnit == 10000

\* Prices counted in units of 0.00001.
TickPriceUnit == 100000

\* nstd::sqrt computes in units of 0.00000001: an argument x is the integer
\* x * SqrtUnit^2 and a result r the integer r * SqrtUnit.
SqrtUnit == 100000000

\* constexpr auto epsilon = 0.00001, in units of 1 / SqrtUnit.
epsilon == 1000

max_iterations == 100

\* The loop of nstd::sqrt from its iteration n on.
RECURSIVE NewtonSteps(_, _, _)
NewtonSteps(x, prev_guess, n) ==
  IF n >= max_iterations THEN prev_guess
  ELSE LET guess == (prev_guess + x \div prev_guess) \div 2
       IN  IF guess - prev_guess < epsilon /\ prev_guess - guess < epsilon
           THEN guess
           ELSE NewtonSteps(x, guess, n + 1)

\* nstd::sqrt.  The first guess is x itself, so the first iteration gives
\* (x + x / x) / 2 = (x + 1) / 2 whatever x > 0 is.
nstd_sqrt(x) ==
  IF x < 0 THEN 0
  ELSE IF x = 0 THEN 0
  ELSE LET first == x \div SqrtUnit
           guess == x \div (2 * SqrtUnit) + SqrtUnit \div 2
       IN  IF guess - first < epsilon /\ first - guess < epsilon
           THEN guess
           ELSE NewtonSteps(x, guess, 1)

---------------------------------------------------------------------------
(* entry.h *)

\* history[history.size() - 1 - k]: the k-th bar counted back from the last.
Back(history, k) == history[Len(history) - k]

\* (current.close - current.open) / current.open * 100.0 < -1.0, open > 0.
DropsMoreThanOnePct(current) ==
  (current.close - current.open) * 100 < -current.open

\* The rule accepting a volume of exactly twice the average.
volume_surge_dip_at_least_twice(history) ==
  LET lookback == 20 IN
  IF Len(history) < lookback THEN FALSE
  ELSE IF \E k \in 0..(lookback - 1) : ~is_valid(Back(history, k)) THEN FALSE
  ELSE LET vol_sum == SeqSum([k \in 1..lookback |->
                                history[Len(history) - lookback + k].volume])
           current == Back(history, 0)
       IN  IF vol_sum = 0 THEN FALSE
           ELSE current.volume * lookback >= 2 * vol_sum /\
                DropsMoreThanOnePct(current)

volume_surge_dip(history) ==
  LET lookback == 20 IN
  IF Len(history) < lookback THEN FALSE
  ELSE IF \E k \in 0..(lookback - 1) : ~is_valid(Back(history, k)) THEN FALSE
  ELSE LET vol_sum == SeqSum([k \in 1..lookback |->
                                history[Len(history) - lookback + k].volume])
           current == Back(history, 0)
       IN  \* avg_vol = vol_sum / lookback; avg_vol == 0.0 iff vol_sum = 0
           IF vol_sum = 0 THEN FALSE
           ELSE \* vol_ratio = current.volume / avg_vol > 2.0
                current.volume * lookback > 2 * vol_sum /\
                DropsMoreThanOnePct(current)

\* With ma = S / 20 and V the sum of (20 * close - S)^2 over the window, in
\* price units: variance / lookback = V / 8000, the square of the standard
\* deviation, and current_price - ma = (20 * close - S) / 20.
\*
\* Whole price units (price_unit = 1).  The standard deviation of integer
\* closes is 0 or above 0.2, where nstd::sqrt stops within 0.00000001 of the
\* root, closer than two different outcomes of a comparison below can be; for
\* a V that is a square it returns the root itself.  So:
\*   std_dev < 0.0001  iff  V = 0
\*   deviation < -2.0  iff  20 * close < S  and  5 * (20 * close - S)^2 > V
\*
\* Fine price units (price_unit = FinePriceUnit or TickPriceUnit).  The
\* standard deviation is near the threshold 0.0001 and nstd::sqrt stops up
\* to 0.5% above the root:
\* std_dev is nstd_sqrt of V / 8000 price units squared, in units of
\* 1 / SqrtUnit.
mean_reversion(history) ==
  LET lookback == 20 IN
  IF Len(history) < lookback THEN FALSE
  ELSE IF \E k \in 0..(lookback - 1) : ~is_valid(Back(history, k)) THEN FALSE
  ELSE LET closes == [k \in 1..lookback |->
                        history[Len(history) - lookback + k].close]
           S == SeqSum(closes)
           V == SeqSum([k \in 1..lookback |->
                          (lookback * closes[k] - S) * (lookback * closes[k] - S)])
           current_price == Back(history, 0).close
           diff == lookback * current_price - S
       IN  IF price_unit = 1
           THEN IF V = 0 THEN FALSE
                ELSE diff < 0 /\ 5 * diff * diff > V
           ELSE LET per_unit == SqrtUnit \div price_unit
                    std_dev == nstd_sqrt(V * ((per_unit * per_unit) \div 8000))
                IN  IF std_dev < SqrtUnit \div 10000 THEN FALSE
                    ELSE diff * (per_unit \div lookback) < -2 * std_dev

sma_crossover_periods(history, short_period, long_period) ==
  LET min_bars == long_period + 1 IN
  IF Len(history) < min_bars THEN FALSE
  ELSE IF \E k \in 0..(min_bars - 1) : ~is_valid(Back(history, k)) THEN FALSE
  ELSE LET short_sum == SeqSum([k \in 1..short_period |->
                                  Back(history, k - 1).close])
           long_sum == SeqSum([k \in 1..long_period |->
                                 Back(history, k - 1).close])
           prev_short_sum == SeqSum([k \in 1..short_period |->
                                       Back(history, k).close])
           prev_long_sum == SeqSum([k \in 1..long_period |->
                                      Back(history, k).close])
       IN  \* prev_short_sma <= prev_long_sma && short_sma > long_sma
           prev_short_sum * long_period <= prev_long_sum * short_period /\
           short_sum * long_period > long_sum * short_period

\* The rule accepting a short average that only touches the long one.
sma_crossover_touching(history) ==
  IF Len(history) < 21 THEN FALSE
  ELSE IF \E k \in 0..20 : ~is_valid(Back(history, k)) THEN FALSE
  ELSE LET sum(first, n) == SeqSum([k \in 1..n |-> Back(history, first + k - 1).close])
       IN  sum(1, 10) * 20 <= sum(1, 20) * 10 /\ sum(0, 10) * 20 >= sum(0, 20) * 10

\* The default template arguments <10, 20>.
sma_crossover(history) == sma_crossover_periods(history, 10, 20)

\* The rule asking for one bar of history only.
price_dip_one_bar(history) ==
  IF Len(history) < 1 THEN FALSE
  ELSE LET current == Back(history, 0)
       IN  IF ~is_valid(current) THEN FALSE
           ELSE DropsMoreThanOnePct(current)

price_dip(history) ==
  IF Len(history) < 2 THEN FALSE
  ELSE LET current == Back(history, 0)
       IN  IF ~is_valid(current) THEN FALSE
           ELSE DropsMoreThanOnePct(current)

\* (b.high - b.low) / b.close as a fraction.
RangeOverClose(b) == Rat(b.high - b.low, b.close)

volatility_breakout(history) ==
  LET lookback == 20
      recent_window == 5
  IN
  IF Len(history) < lookback + recent_window THEN FALSE
  ELSE IF \E k \in 0..(recent_window - 1) : ~is_valid(Back(history, k)) THEN FALSE
  ELSE IF \E k \in recent_window..(recent_window + lookback - 1) :
            ~is_valid(Back(history, k)) THEN FALSE
  ELSE LET recent_sum == RatSeqSum([k \in 1..recent_window |->
                                      RangeOverClose(Back(history, k - 1))])
           hist_sum == RatSeqSum([k \in 1..lookback |->
                          RangeOverClose(Back(history, recent_window + k - 1))])
           recent_vol == RatMul(recent_sum, Rat(1, recent_window))
           hist_vol == RatMul(hist_sum, Rat(1, lookback))
           current == Back(history, 0)
       IN  IF RatLess(hist_vol, Rat(1, 10000)) THEN FALSE
           ELSE RatLess(RatMul(hist_vol, Rat(3, 2)), recent_vol) /\
                current.close - current.open > 0

is_entry(history) ==
  IF volume_surge_dip(history) THEN TRUE
  ELSE IF mean_reversion(history) THEN TRUE
  ELSE IF sma_crossover(history) THEN TRUE
  ELSE IF price_dip(history) THEN TRUE
  ELSE IF volatility_breakout(history) THEN TRUE
  ELSE FALSE

---------------------------------------------------------------------------
(* backtest.cxx: run_backtest, helpers *)

\* The guard one index too low.
signal_index_one_early == 21 - 1

\* if (i >= 21)
min_signal_index == 21

\* std::span{bars.data(), i + 1}.last(21)
history_bars == 21

\* The window shifted one bar ahead whenever bars[k + 1] exists.
history_with_next_bar(bs, k) ==
  IF k + 1 < Len(bs) THEN SubSeq(bs, k + 3 - history_bars, k + 2)
  ELSE SubSeq(bs, k + 2 - history_bars, k + 1)

history(bs, k) == SubSeq(bs, k + 2 - history_bars, k + 1)

is_gap(bs, prev_idx, curr_idx) ==
  IF prev_idx >= Len(bs) \/ curr_idx >= Len(bs) THEN FALSE
  ELSE substr(chars(Bar(bs, prev_idx).timestamp), 0, 10) #
       substr(chars(Bar(bs, curr_idx).timestamp), 0, 10)

\* if (i >= 21) { ...; if (is_entry(history))
EntrySignal(bs, k) == k >= min_signal_index /\ is_entry(history(bs, k))

\* The guard without the validity of the fill bar.
FillBarExists(bs, k) == k + 1 < Len(bs)

\* if (i + 1 < bars.size() && is_valid(bars[i + 1]))
FillExists(bs, k) == k + 1 < Len(bs) /\ is_valid(Bar(bs, k + 1))

\* Whether the Flat branch opens a position at index k (lines 181-185).
OpensAt(bs, k) == EntrySignal(bs, k) /\ FillExists(bs, k)

\* The fill taken from the signal bar's close.
entry_fill_price_at_signal_close(bs, k) == Bar(bs, k).close

\* auto entry_price = bars[i + 1].open;
entry_fill_price(bs, k) == Bar(bs, k + 1).open

\* if (i > entry_bar_idx && is_gap(i - 1, i))
\* The gap test made on the fill bar as well.
GapFiresOnFillBar(bs, k, e) == is_gap(bs, k - 1, k)

GapFires(bs, k, e) == k > e /\ is_gap(bs, k - 1, k)

\* The trailing stop set from every close above the entry price.
update_trailing_unguarded(pos, current_price) ==
  IF current_price > pos.entry_price
  THEN [pos EXCEPT !.trailing_stop =
          current_price * (Scale - default_params.trailing_stop_pct)]
  ELSE pos

\* The position left as it is, the update coming too late for this bar.
update_trailing_skipped(pos, current_price) == pos

\* The update that also lifts the stop loss to the entry price once the close
\* is above it.
update_trailing_and_stop_loss(pos, current_price) ==
  IF current_price > pos.entry_price
  THEN LET new_trailing == current_price * (Scale - default_params.trailing_stop_pct)
       IN  [pos EXCEPT !.stop_loss = pos.entry_price * Scale,
                       !.trailing_stop = IF new_trailing > @ THEN new_trailing ELSE @]
  ELSE pos

\* "Update trailing stop": the position after lines 219-224.
update_trailing(pos, current_price) ==
  IF current_price > pos.entry_price
  THEN LET new_trailing == current_price * (Scale - default_params.trailing_stop_pct)
       IN  IF new_trailing > pos.trailing_stop
           THEN [pos EXCEPT !.trailing_stop = new_trailing]
           ELSE pos
  ELSE pos

\* Whether the Open branch closes the position at index k (lines 199, 227).
ClosesAt(bs, k, pos, e) ==
  \/ GapFires(bs, k, e)
  \/ is_exit(update_trailing(pos, Bar(bs, k).close), Bar(bs, k))

\* auto exit_price = bars[i].close;  (price exit, line 228)
exit_fill_price(bs, k) == Bar(bs, k).close

\* auto exit_price = bars[i - 1].close;  (gap close, line 200)
gap_exit_price(bs, k) == Bar(bs, k - 1).close

\* (exit_price - entry_price) / entry_price * 100.0
gain_pct_of(entry_price, exit_price) ==
  Rat((exit_price - entry_price) * 100, entry_price)

\* struct trade_result.  The struct has no exit-reason member; "cause" records
\* the exit_reason the closing branch evaluated: the value of check_exit on the
\* closing bar for the price exit, "none" for the gap close, which consults no
\* exit_reason.
trade_result(eb, xb, ep, xp, cause) ==
  [entry_bar |-> eb, exit_bar |-> xb, entry_price |-> ep, exit_price |-> xp,
   gain_pct |-> gain_pct_of(ep, xp), duration_bars |-> xb - eb, cause |-> cause]

\* The entry branch taken whatever in_position is.
FlatIgnoringPosition == TRUE

\* if (!in_position)
Flat == ~in_position

\* The loop body runs for a valid bars[i] (lines 175-177).
AtValidBar == pc = "loop" /\ i < Len(bars) /\ is_valid(Bar(bars, i))

---------------------------------------------------------------------------
(* backtest.cxx: the intraday analysis pass, lines 124-172 *)

SetMin(S) == CHOOSE x \in S : \A y \in S : x <= y

SetMax(S) == CHOOSE x \in S : \A y \in S : x >= y

\* Lines 128-157.  For the entry bar k the inner loop skips invalid bars and
\* breaks at the first valid j > k with is_gap(j - 1, j); max_gain and
\* max_loss are fractions over bars[k].open.  The vectors max_intraday_gains
\* and max_intraday_losses are kept by what the code reads of them: whether
\* they are empty, their largest and their smallest element.  The best entry
\* is the first bar with the largest max_gain, when that exceeds 0 (line 153
\* replaces the best entry only by a strictly larger max_gain).
IntradayAnalysis(bs) ==
  LET valid == {k \in 0..(Len(bs) - 1) : is_valid(Bar(bs, k))}
      breaks == {j \in valid : j >= 1 /\ is_gap(bs, j - 1, j)}
      stop(k) == LET later == {j \in breaks : j > k}
                 IN  IF later = {} THEN Len(bs) ELSE SetMin(later)
      scanned(k) == LET last == stop(k) IN {j \in valid : k <= j /\ j < last}
      extremes(k) ==
        LET js == scanned(k)
            open == Bar(bs, k).open
        IN  [gain |-> Rat(SetMax({0} \cup {(Bar(bs, j).high - open) * 100 : j \in js}),
                          open),
             loss |-> Rat(SetMin({0} \cup {(Bar(bs, j).low - open) * 100 : j \in js}),
                          open)]
      rows == {<<k, extremes(k)>> : k \in valid}
      top == CHOOSE p \in rows : \A q \in rows :
               /\ ~RatLess(p[2].gain, q[2].gain)
               /\ (q[2].gain = p[2].gain => p[1] <= q[1])
      low == CHOOSE p \in rows : \A q \in rows : ~RatLess(q[2].loss, p[2].loss)
  IN  IF valid = {} THEN [entries |-> 0,
                          max_intraday_gain |-> RatZero,
                          max_intraday_loss |-> RatZero,
                          best_entry_idx |-> 0,
                          best_entry_gain |-> RatZero]
      ELSE [entries |-> Cardinality(valid),
            max_intraday_gain |-> top[2].gain,
            max_intraday_loss |-> low[2].loss,
            best_entry_idx |-> IF top[2].gain.n > 0 THEN top[1] ELSE 0,
            best_entry_gain |-> IF top[2].gain.n > 0 THEN top[2].gain ELSE RatZero]

NoAnalysis ==
  [entries |-> 0, max_intraday_gain |-> RatZero, max_intraday_loss |-> RatZero,
   best_entry_idx |-> 0, best_entry_gain |-> RatZero]

\* best_entry_context{}
NoTopEntry ==
  [bar_idx |-> 0, gain_pct |-> RatZero, entry_price |-> 0, timestamp |-> "",
   prev_closes |-> [k \in 1..5 |-> 0], prev_volumes |-> [k \in 1..5 |-> 0]]

\* "Capture context around best entry point", lines 160-172.
top_entry_of(bs, a) ==
  IF a.best_entry_idx >= 5 /\ a.best_entry_idx < Len(bs)
  THEN [bar_idx |-> a.best_entry_idx,
        gain_pct |-> a.best_entry_gain,
        entry_price |-> Bar(bs, a.best_entry_idx).open,
        timestamp |-> Bar(bs, a.best_entry_idx).timestamp,
        prev_closes |-> [k \in 1..5 |-> Bar(bs, a.best_entry_idx - 5 + k - 1).close],
        prev_volumes |-> [k \in 1..5 |-> Bar(bs, a.best_entry_idx - 5 + k - 1).volume]]
  ELSE NoTopEntry

\* The result starting from a win rate of 100%.
new_result_full_win_rate(bs) ==
  [bar_count |-> Len(bs), trade_count |-> 0,
   best_gain_pct |-> RatZero, best_gain_duration |-> 0,
   worst_loss_pct |-> RatZero, worst_loss_duration |-> 0,
   avg_gain_pct |-> RatZero, win_rate_pct |-> Rat(100, 1),
   profit_factor |-> RatZero,
   suggested_tp_pct |-> RatZero, suggested_sl_pct |-> RatZero,
   max_intraday_gain_pct |-> RatZero, max_intraday_loss_pct |-> RatZero,
   top_entry |-> NoTopEntry]

\* backtest_result{.symbol = symbol, .bar_count = bars.size()}
new_result(bs) ==
  [bar_count |-> Len(bs), trade_count |-> 0,
   best_gain_pct |-> RatZero, best_gain_duration |-> 0,
   worst_loss_pct |-> RatZero, worst_loss_duration |-> 0,
   avg_gain_pct |-> RatZero, win_rate_pct |-> RatZero,
   profit_factor |-> RatZero,
   suggested_tp_pct |-> RatZero, suggested_sl_pct |-> RatZero,
   max_intraday_gain_pct |-> RatZero, max_intraday_loss_pct |-> RatZero,
   top_entry |-> NoTopEntry]

---------------------------------------------------------------------------
(* backtest.cxx: statistics, lines 247-302 *)

\* std::ranges::max_element: the first of the largest; k is the best so far.
RECURSIVE MaxGainIdx(_, _, _)
MaxGainIdx(ts, k, n) ==
  IF n > Len(ts) THEN k
  ELSE MaxGainIdx(ts, IF RatLess(ts[k].gain_pct, ts[n].gain_pct) THEN n ELSE k, n + 1)

\* std::ranges::min_element: the first of the smallest.
RECURSIVE MinGainIdx(_, _, _)
MinGainIdx(ts, k, n) ==
  IF n > Len(ts) THEN k
  ELSE MinGainIdx(ts, IF RatLess(ts[n].gain_pct, ts[k].gain_pct) THEN n ELSE k, n + 1)

\* A trade that breaks even counted as a win.
IsWinOrEven(t) == t.gain_pct.n >= 0

IsWin(t) == t.gain_pct.n > 0

statistics(res, ts, a) ==
  IF ts = <<>> THEN res
  ELSE
    LET n == Len(ts)
        best == ts[MaxGainIdx(ts, 1, 2)]
        worst == ts[MinGainIdx(ts, 1, 2)]
        total_gain == RatSeqSum([k \in 1..n |-> ts[k].gain_pct])
        winning_trades == Cardinality({k \in 1..n : IsWin(ts[k])})
        total_wins == RatSeqSum([k \in 1..n |->
                        IF IsWin(ts[k]) THEN ts[k].gain_pct ELSE RatZero])
        total_losses == RatSeqSum([k \in 1..n |->
                          IF IsWin(ts[k]) THEN RatZero ELSE RatAbs(ts[k].gain_pct)])
    IN  [res EXCEPT
           !.trade_count = n,
           !.best_gain_pct = best.gain_pct,
           !.best_gain_duration = best.duration_bars,
           !.worst_loss_pct = worst.gain_pct,
           !.worst_loss_duration = worst.duration_bars,
           !.avg_gain_pct = RatMul(total_gain, Rat(1, n)),
           !.win_rate_pct = Rat(winning_trades * 100, n),
           !.profit_factor = IF total_losses.n > 0
                             THEN Rat(total_wins.n * total_losses.d,
                                      total_wins.d * total_losses.n)
                             ELSE RatZero,
           !.suggested_tp_pct = RatMul(best.gain_pct, Rat(1, 2)),
           !.suggested_sl_pct = RatMin(RatMul(RatAbs(worst.gain_pct), Rat(1, 2)),
                                       RatMul(best.gain_pct, Rat(1, 4))),
           !.max_intraday_gain_pct =
              IF a.entries # 0
              THEN a.max_intraday_gain ELSE res.max_intraday_gain_pct,
           !.max_intraday_loss_pct =
              IF a.entries # 0
              THEN a.max_intraday_loss ELSE res.max_intraday_loss_pct]

---------------------------------------------------------------------------
(* The bar series given to run_backtest *)

\* The timestamps of the tail, in the order of time.
Stamps == <<"on", "off", "next">>

\* Bars without their timestamp: close, high, low, open, vwap, volume, trades.
Shape(c, h, l, o, vw, v) ==
  [close |-> c, high |-> h, low |-> l, open |-> o, vwap |-> vw,
   volume |-> v, num_trades |-> 50]

ShapeFlat == Shape(1000, 1010, 990, 1000, 1000, 1000)
ShapeDip == Shape(985, 1000, 985, 1000, 990, 3000)
ShapeUp1 == Shape(1005, 1005, 995, 995, 1000, 1000)
ShapeUp2 == Shape(1011, 1011, 1000, 1000, 1005, 1000)
ShapeBad == Shape(985, 990, 1010, 1000, 1000, 3000)

Shapes == {ShapeFlat, ShapeDip, ShapeUp1, ShapeUp2, ShapeBad}

WithStamp(shape, ts) ==
  bar(shape.close, shape.high, shape.low, shape.open, shape.vwap,
      shape.volume, shape.num_trades, ts)

\* The tail's timestamps never go back in time, and at most one of its bars
\* is in the last half hour of the first day.
Timelines(n) ==
  {tl \in [1..n -> 1..Len(Stamps)] :
     /\ \A k \in 1..(n - 1) : tl[k] <= tl[k + 1]
     /\ Cardinality({k \in 1..n : tl[k] = 2}) <= 1}

\* A flat first day of min_signal_index bars, then TailLen bars of any shape.
FlatPrefix == [k \in 1..min_signal_index |-> WithStamp(ShapeFlat, "on")]

FullSeries ==
  {FlatPrefix \o [k \in 1..TailLen |-> WithStamp(sh[k], Stamps[tl[k]])] :
     sh \in [1..TailLen -> Shapes], tl \in Timelines(TailLen)}

ShortSeries ==
  {[k \in 1..ShortLen |-> WithStamp(sh[k], "on")] : sh \in [1..ShortLen -> Shapes]}

BarSeries == {<<>>} \cup ShortSeries \cup FullSeries

---------------------------------------------------------------------------
(* run_backtest as a state machine: one action per loop iteration *)

NoPosition == position(0, 0, 0, 0)

NoExitResult == [reason |-> "none", exit |-> FALSE]

NoVerdict == [is_entry |-> FALSE]

\* Prices in whole units, no rule applied, no StrategyResult.
NoProbe ==
  /\ price_unit = 1
  /\ timestamp_arg = <<>>
  /\ verdict = NoVerdict
  /\ results = <<>>
  /\ recommendations = <<>>

Init ==
  /\ pc = "start"
  /\ bars \in BarSeries
  /\ i = 0
  /\ in_position = FALSE
  /\ current_position = NoPosition
  /\ entry_bar_idx = 0
  /\ trades = <<>>
  /\ positions_opened = 0
  /\ analysis = NoAnalysis
  /\ result = new_result(bars)
  /\ exit_result = NoExitResult
  /\ NoProbe

\* if (bars.empty()) return result;
ReturnEmpty ==
  /\ pc = "start"
  /\ bars = <<>>
  /\ pc' = "done"
  /\ UNCHANGED <<bars, i, in_position, current_position, entry_bar_idx, trades,
                 positions_opened, analysis, result, exit_result, probe_vars>>

\* Lines 124-172: the intraday analysis and the best entry's context.
Analyse ==
  /\ pc = "start"
  /\ bars # <<>>
  /\ analysis' = IntradayAnalysis(bars)
  /\ result' = [result EXCEPT !.top_entry = top_entry_of(bars, analysis')]
  /\ pc' = "loop"
  /\ UNCHANGED <<bars, i, in_position, current_position, entry_bar_idx, trades,
                 positions_opened, exit_result, probe_vars>>

\* if (!is_valid(bars[i])) continue;
SkipInvalid ==
  /\ pc = "loop"
  /\ i < Len(bars)
  /\ ~is_valid(Bar(bars, i))
  /\ i' = i + 1
  /\ UNCHANGED <<pc, bars, in_position, current_position, entry_bar_idx, trades,
                 positions_opened, analysis, result, exit_result, probe_vars>>

\* Flat, and no position is opened: too early, no signal, or no valid fill bar.
FlatNoEntry ==
  /\ AtValidBar
  /\ Flat
  /\ ~OpensAt(bars, i)
  /\ i' = i + 1
  /\ UNCHANGED <<pc, bars, in_position, current_position, entry_bar_idx, trades,
                 positions_opened, analysis, result, exit_result, probe_vars>>

\* Lines 183-194: enter at the next bar's open.
Enter ==
  /\ AtValidBar
  /\ Flat
  /\ OpensAt(bars, i)
  /\ LET entry_price == entry_fill_price(bars, i)
         levels == calculate_levels(entry_price, default_params)
     IN  current_position' = position(entry_price, levels.take_profit,
                                      levels.stop_loss, levels.trailing_stop)
  /\ in_position' = TRUE
  /\ entry_bar_idx' = i + 1
  /\ positions_opened' = positions_opened + 1
  /\ i' = i + 1
  /\ UNCHANGED <<pc, bars, trades, analysis, result, exit_result, probe_vars>>

\* Lines 198-216: close at the last bar before the gap.
GapClose ==
  /\ AtValidBar
  /\ ~Flat
  /\ GapFires(bars, i, entry_bar_idx)
  /\ trades' = Append(trades,
                 trade_result(entry_bar_idx, i - 1, current_position.entry_price,
                              gap_exit_price(bars, i), "none"))
  /\ in_position' = FALSE
  /\ i' = i + 1
  /\ UNCHANGED <<pc, bars, current_position, entry_bar_idx, positions_opened,
                 analysis, result, exit_result, probe_vars>>

\* Lines 218-243, is_exit true: update the trailing stop, then close.
PriceExit ==
  /\ AtValidBar
  /\ ~Flat
  /\ ~GapFires(bars, i, entry_bar_idx)
  /\ LET pos == update_trailing(current_position, Bar(bars, i).close)
     IN  /\ is_exit(pos, Bar(bars, i))
         /\ current_position' = pos
         /\ trades' = Append(trades,
                        trade_result(entry_bar_idx, i, pos.entry_price,
                                     exit_fill_price(bars, i),
                                     check_exit(pos, Bar(bars, i))))
  /\ in_position' = FALSE
  /\ i' = i + 1
  /\ UNCHANGED <<pc, bars, entry_bar_idx, positions_opened, analysis, result,
                 exit_result, probe_vars>>

\* Lines 218-243, is_exit false: update the trailing stop and keep holding.
Hold ==
  /\ AtValidBar
  /\ ~Flat
  /\ ~ClosesAt(bars, i, current_position, entry_bar_idx)
  /\ current_position' = update_trailing(current_position, Bar(bars, i).close)
  /\ i' = i + 1
  /\ UNCHANGED <<pc, bars, in_position, entry_bar_idx, trades, positions_opened,
                 analysis, result, exit_result, probe_vars>>

\* The loop's end closing a position that is still open at the last bar's
\* close, with the exit reason end_of_data, before the statistics.
FinishForceClosed ==
  /\ pc = "loop"
  /\ i >= Len(bars)
  /\ trades' = IF in_position
               THEN Append(trades,
                      trade_result(entry_bar_idx, Len(bars) - 1,
                                   current_position.entry_price,
                                   Bar(bars, Len(bars) - 1).close, "end_of_data"))
               ELSE trades
  /\ in_position' = FALSE
  /\ result' = statistics(result, trades', analysis)
  /\ pc' = "done"
  /\ UNCHANGED <<bars, i, current_position, entry_bar_idx, positions_opened,
                 analysis, exit_result, probe_vars>>

\* Lines 247-302: the loop has ended; the statistics of the completed trades.
Finish ==
  /\ pc = "loop"
  /\ i >= Len(bars)
  /\ result' = statistics(result, trades, analysis)
  /\ pc' = "done"
  /\ UNCHANGED <<bars, i, in_position, current_position, entry_bar_idx, trades,
                 positions_opened, analysis, exit_result, probe_vars>>

Next ==
  \/ ReturnEmpty
  \/ Analyse
  \/ SkipInvalid
  \/ FlatNoEntry
  \/ Enter
  \/ GapClose
  \/ PriceExit
  \/ Hold
  \/ Finish

Spec == Init /\ [][Next]_vars

---------------------------------------------------------------------------
(* check_exit and is_exit applied to any position and any bar *)

ProbePrices == {85, 90, 95, 100, 105, 110}

\* Positions whose three levels are in any order.
ProbePositions ==
  {position(100, tp * Scale, sl * Scale, ts * Scale) :
     tp \in ProbePrices, sl \in ProbePrices, ts \in ProbePrices}

\* A valid bar closing at each price, and three bars that fail is_valid: by
\* high < low, by a zero open and by a short timestamp.
ProbeBars ==
  {bar(c, 110, 85, 100, 0, 1000, 50, "on") : c \in ProbePrices}
    \cup {bar(110, 85, 110, 100, 0, 1000, 50, "on"),
          bar(90, 110, 0, 0, 0, 1000, 50, "on"),
          bar(110, 110, 85, 100, 0, 1000, 50, "short")}

InitExit ==
  /\ pc = "probe"
  /\ bars \in {<<b>> : b \in ProbeBars}
  /\ current_position \in ProbePositions
  /\ i = 0
  /\ in_position = TRUE
  /\ entry_bar_idx = 0
  /\ trades = <<>>
  /\ positions_opened = 1
  /\ analysis = NoAnalysis
  /\ result = new_result(bars)
  /\ exit_result = NoExitResult
  /\ NoProbe

ProbeExit ==
  /\ pc = "probe"
  /\ exit_result' = [reason |-> check_exit(current_position, Bar(bars, 0)),
                     exit |-> is_exit(current_position, Bar(bars, 0))]
  /\ pc' = "probed"
  /\ UNCHANGED <<bars, i, in_position, current_position, entry_bar_idx, trades,
                 positions_opened, analysis, result, probe_vars>>

NextExit == ProbeExit

SpecExit == InitExit /\ [][NextExit]_vars

---------------------------------------------------------------------------
(* The entry rules applied to histories of any length *)

\* A valid bar from open o to close c with volume v, its high and low pad
\* beyond both.
ProbeBar(o, c, v, pad) ==
  bar(c, (IF o > c THEN o ELSE c) + pad, (IF o > c THEN c ELSE o) - pad, o, 0,
      v, 50, "on")

\* The history with the bar k places before the last replaced by one that
\* fails is_valid (its high below its low); k < 0 leaves the history alone.
WithInvalidBar(h, k) ==
  IF k < 0 \/ k >= Len(h) THEN h
  ELSE [h EXCEPT ![Len(h) - k] = [@ EXCEPT !.high = @ - 100]]

\* Flat bars of volume v, then one bar from 1000 to close c with volume w:
\* w = 1900 is twice the average of 19 bars of 900 and itself, and c = 990
\* is a drop of 1%.
VolumeHistories ==
  {WithInvalidBar([k \in 1..n |-> IF k < n THEN ProbeBar(1000, 1000, v, 5)
                                  ELSE ProbeBar(1000, c, w, 5)], bad) :
     n \in {19, 20, 21}, v \in {0, 900}, w \in {0, 1899, 1900, 1901, 3000},
     c \in {985, 989, 990, 1000}, bad \in {-1, 0, 19}}

\* Closes of 1000, then the previous close p and the current close c.
CrossoverHistories ==
  {WithInvalidBar([k \in 1..n |-> IF k < n - 1 THEN ProbeBar(1000, 1000, 1000, 5)
                                  ELSE IF k = n - 1 THEN ProbeBar(p, p, 1000, 5)
                                  ELSE ProbeBar(c, c, 1000, 5)], bad) :
     n \in {20, 21, 22}, p \in {990, 1000, 1010, 1020},
     c \in {990, 1000, 1010, 1020}, bad \in {-1, 20}}

\* up closes of 1000 + step, down closes of 1000 - step, closes of 1000, then
\* the current close 1000 + last.
SpreadHistory(n, step, up, down, last) ==
  [k \in 1..n |->
     LET c == IF k = n THEN 1000 + last
              ELSE IF k <= up THEN 1000 + step
              ELSE IF k <= up + down THEN 1000 - step
              ELSE 1000
     IN  ProbeBar(c, c, 1000, 5)]

\* <<step, up, down>>: with 7 up and 4 down by 1 and a current close of -3
\* the standard deviation of 20 closes is exactly 1; with 9 up and 7 down by
\* 2 and a current close of -4 it is 2 and the current close is exactly 2
\* standard deviations below the mean.
Spreads == {<<1, 0, 0>>, <<1, 7, 4>>, <<1, 6, 4>>, <<1, 9, 7>>, <<2, 9, 7>>,
            <<2, 10, 9>>}

ReversionHistories ==
  {WithInvalidBar(SpreadHistory(n, sp[1], sp[2], sp[3], last), bad) :
     n \in {19, 20}, sp \in Spreads, last \in -5..0, bad \in {-1, 10}}

\* Spreads for prices in units of 0.00001, where a standard deviation of
\* 0.0001 is 10 units: <<10, 7, 4>> with a current close of -30 has a
\* standard deviation of exactly 10, <<10, 6, 6>> with -29 one of 9.997 and
\* <<10, 8, 3>> with -30 one of 9.95.
TickSpreads == {<<10, 7, 4>>, <<10, 6, 6>>, <<10, 8, 3>>}

TickHistories ==
  {SpreadHistory(20, sp[1], sp[2], sp[3], last) :
     sp \in TickSpreads, last \in {-30, -29}}

\* Bars of range lo / 1000, then 5 bars of range hi / 1000, the last one
\* closing above (up) or at its open.
BreakoutHistories ==
  {[k \in 1..n |-> IF k <= n - 5 THEN ProbeBar(1000, 1000, 1000, 1)
                   ELSE IF k < n THEN ProbeBar(1000, 1000, 1000, pad)
                   ELSE ProbeBar(1000 - up, 1000, 1000, pad)] :
     n \in {24, 25, 26}, pad \in {1, 2, 20}, up \in {0, 10}}

\* Zero to three bars, each dropping from 1000 to c.
DipHistories ==
  {[k \in 1..n |-> ProbeBar(1000, c, 1000, 5)] : n \in 0..3, c \in {985, 1000}}

\* Every history comes with the price unit its prices are in.
ProbeHistories ==
  {<<1, h>> : h \in VolumeHistories \cup CrossoverHistories
                      \cup ReversionHistories \cup BreakoutHistories
                      \cup DipHistories}
    \cup {<<FinePriceUnit, h>> : h \in ReversionHistories}
    \cup {<<TickPriceUnit, h>> : h \in TickHistories}

InitEntry ==
  /\ pc = "probe_entry"
  /\ \E ph \in ProbeHistories : price_unit = ph[1] /\ bars = ph[2]
  /\ i = 0
  /\ in_position = FALSE
  /\ current_position = NoPosition
  /\ entry_bar_idx = 0
  /\ trades = <<>>
  /\ positions_opened = 0
  /\ analysis = NoAnalysis
  /\ result = new_result(bars)
  /\ exit_result = NoExitResult
  /\ verdict = NoVerdict
  /\ results = <<>>
  /\ recommendations = <<>>
  /\ timestamp_arg = <<>>

ProbeEntry ==
  /\ pc = "probe_entry"
  /\ verdict' = [volume_surge_dip |-> volume_surge_dip(bars),
                 mean_reversion |-> mean_reversion(bars),
                 sma_crossover |-> sma_crossover(bars),
                 price_dip |-> price_dip(bars),
                 volatility_breakout |-> volatility_breakout(bars),
                 is_entry |-> is_entry(bars)]
  /\ pc' = "probed_entry"
  /\ UNCHANGED <<bars, i, in_position, current_position, entry_bar_idx, trades,
                 positions_opened, analysis, result, exit_result, price_unit,
                 results, recommendations, timestamp_arg>>

NextEntry == ProbeEntry

SpecEntry == InitEntry /\ [][NextEntry]_vars

\* The entry rules on any history together with run_backtest on any series.
SpecRules == (Init \/ InitEntry) /\ [][Next \/ NextEntry]_vars

---------------------------------------------------------------------------
(* run_backtest on series that end in a volatility breakout *)

\* A breakout history followed by one bar to fill on.
BreakoutSeries ==
  {h \o <<WithStamp(sh, "on")>> : h \in BreakoutHistories,
                                   sh \in {ShapeFlat, ShapeUp1}}

InitBreakout ==
  /\ pc = "start"
  /\ bars \in BreakoutSeries
  /\ i = 0
  /\ in_position = FALSE
  /\ current_position = NoPosition
  /\ entry_bar_idx = 0
  /\ trades = <<>>
  /\ positions_opened = 0
  /\ analysis = NoAnalysis
  /\ result = new_result(bars)
  /\ exit_result = NoExitResult
  /\ NoProbe

\* run_backtest on the series of Spec and on the breakout series.
SpecSignals == (Init \/ InitBreakout) /\ [][Next]_vars

---------------------------------------------------------------------------
(* is_valid applied to any bar *)

ProbePriceLevels == {-1, 0, 1, 2}

ProbeVwaps == {-1, 0, 1, 2, 3}

ProbeStamps == {"on", "short", "empty", "millis", "slash4", "slash7", "compact"}

\* Any bar, the one element of bars.
InitBar ==
  /\ pc = "probe_bar"
  /\ \E o \in ProbePriceLevels, h \in ProbePriceLevels, l \in ProbePriceLevels,
        c \in ProbePriceLevels, vw \in ProbeVwaps, ts \in ProbeStamps :
       bars = <<bar(c, h, l, o, vw, 1000, 50, ts)>>
  /\ i = 0
  /\ in_position = FALSE
  /\ current_position = NoPosition
  /\ entry_bar_idx = 0
  /\ trades = <<>>
  /\ positions_opened = 0
  /\ analysis = NoAnalysis
  /\ result = new_result(bars)
  /\ exit_result = NoExitResult
  /\ NoProbe

ProbeValid ==
  /\ pc = "probe_bar"
  /\ verdict' = [is_valid |-> is_valid(bars[1])]
  /\ pc' = "probed_bar"
  /\ UNCHANGED <<bars, i, in_position, current_position, entry_bar_idx, trades,
                 positions_opened, analysis, result, exit_result, price_unit,
                 results, recommendations, timestamp_arg>>

NextBar == ProbeValid

SpecBar == InitBar /\ [][NextBar]_vars

---------------------------------------------------------------------------
(* backtest.cxx: the statistics of lines 247-302 on any trade list *)

MaxTrades == 3

\* Closes a position filled at 1000 can be closed at: by the stop loss, by
\* the trailing stop, at the entry price and below the take profit on a
\* session gap, and by the take profit.
ExitCloses == {985, 990, 1000, 1005, 1013}

\* The trade lists the simulation may end with: trade k is filled on bar
\* 3k + 19 and closed on the next one.
TradeLists ==
  UNION {{[k \in 1..n |-> trade_result(3 * k + 19, 3 * k + 20, 1000, xs[k], "none")] :
            xs \in [1..n -> ExitCloses]} : n \in 1..MaxTrades}

\* The end of the simulation loop of a series long enough for the trades.
InitStats ==
  /\ pc = "loop"
  /\ bars = [k \in 1..(3 * MaxTrades + 22) |-> WithStamp(ShapeFlat, "on")]
  /\ i = Len(bars)
  /\ in_position = FALSE
  /\ current_position = NoPosition
  /\ entry_bar_idx = 0
  /\ trades \in TradeLists
  /\ positions_opened = Len(trades)
  /\ analysis = NoAnalysis
  /\ result = new_result(bars)
  /\ exit_result = NoExitResult
  /\ NoProbe

\* run_backtest on any series, and its statistics on any trade list.
SpecStats == (Init \/ InitStats) /\ [][Next]_vars

---------------------------------------------------------------------------
(* The market.h functions applied to any timestamp *)

\* Timestamps of 2026-02-16 whose hour and minute are made of these
\* characters: every boundary of the session calendar, hours past 23 and
\* characters that are no digits.
ProbeTimestamps ==
  {Stamp(Date1, h1, h2, m1, m2) :
     h1 \in {"0", "1", "2", "x"}, h2 \in {"0", "1", "3", "4", "5", " "},
     m1 \in {"0", "2", "3", "4", "5", "-"}, m2 \in {"0", "9", "Z"}}

\* The lengths a timestamp is cut to: extract_hour needs 14 characters and
\* extract_minute 17.
ProbeLengths == {0, 13, 14, 16, 17, 20}

InitMarket ==
  /\ pc = "probe_market"
  /\ \E t \in ProbeTimestamps, n \in ProbeLengths :
       timestamp_arg = SubSeq(t, 1, n)
  /\ bars = <<>>
  /\ i = 0
  /\ in_position = FALSE
  /\ current_position = NoPosition
  /\ entry_bar_idx = 0
  /\ trades = <<>>
  /\ positions_opened = 0
  /\ analysis = NoAnalysis
  /\ result = new_result(bars)
  /\ exit_result = NoExitResult
  /\ price_unit = 1
  /\ verdict = NoVerdict
  /\ results = <<>>
  /\ recommendations = <<>>

ProbeMarket ==
  /\ pc = "probe_market"
  /\ verdict' = [market_open |-> market_open(timestamp_arg),
                 risk_on |-> risk_on(timestamp_arg),
                 risk_off |-> risk_off(timestamp_arg),
                 market_close |-> market_close(timestamp_arg),
                 liquidation_time |-> liquidation_time(timestamp_arg)]
  /\ pc' = "probed_market"
  /\ UNCHANGED <<bars, i, in_position, current_position, entry_bar_idx, trades,
                 positions_opened, analysis, result, exit_result, price_unit,
                 results, recommendations, timestamp_arg>>

NextMarket == ProbeMarket

SpecMarket == InitMarket /\ [][NextMarket]_vars

---------------------------------------------------------------------------
(* backtest/main.cxx: the strategy filter *)

\* struct StrategyResult.  win_rate is in hundredths (0.60 is 60) and
\* avg_profit in ten-thousandths (0.01 is 100).
StrategyResult(symbol, strategy_name, win_rate, avg_profit, trade_count) ==
  [symbol |-> symbol, strategy_name |-> strategy_name, win_rate |-> win_rate,
   avg_profit |-> avg_profit, trade_count |-> trade_count]

\* What test_strategy may return for one symbol and strategy: the values of
\* its placeholder (0.65, 0.023, 42) and values around the filter's bounds.
test_strategy(symbol, strategy_name) ==
  {StrategyResult(symbol, strategy_name, w, p, n) :
     w \in {50, 59, 60, 65}, p \in {99, 100, 230}, n \in {4, 5, 42}}

MaxResults == 2

\* The results vector after the loops over candidates and strategies.
ResultLists ==
  UNION {[1..n -> test_strategy("AAPL", "mean_reversion")] : n \in 0..MaxResults}

\* The filter taking the win rate alone.
profitable_by_win_rate(r) == r.win_rate >= 60

\* result.win_rate >= 0.60 && result.avg_profit >= 0.01
profitable(r) == r.win_rate >= 60 /\ r.avg_profit >= 100

\* The recommendations the filter loop pushes, in the order of results.
RECURSIVE filter(_)
filter(rs) ==
  IF rs = <<>> THEN <<>>
  ELSE (IF profitable(Head(rs)) THEN <<Head(rs)>> ELSE <<>>) \o filter(Tail(rs))

InitSelect ==
  /\ pc = "main"
  /\ bars = <<>>
  /\ i = 0
  /\ in_position = FALSE
  /\ current_position = NoPosition
  /\ entry_bar_idx = 0
  /\ trades = <<>>
  /\ positions_opened = 0
  /\ analysis = NoAnalysis
  /\ result = new_result(bars)
  /\ exit_result = NoExitResult
  /\ NoProbe

select_unchanged ==
  <<bars, i, in_position, current_position, entry_bar_idx, trades,
    positions_opened, analysis, result, exit_result, price_unit, verdict,
    timestamp_arg>>

\* docs/candidates.json does not exist: return 1.
MissingCandidates ==
  /\ pc = "main"
  /\ pc' = "returned_1"
  /\ UNCHANGED <<results, recommendations, select_unchanged>>

\* The loops calling test_strategy.
TestStrategies ==
  /\ pc = "main"
  /\ results' \in ResultLists
  /\ pc' = "tested"
  /\ UNCHANGED <<recommendations, select_unchanged>>

\* The filter loop.
Filter ==
  /\ pc = "tested"
  /\ recommendations' = filter(results)
  /\ pc' = "filtered"
  /\ UNCHANGED <<results, select_unchanged>>

\* docs/strategies.json cannot be opened: return 1.
WriteFails ==
  /\ pc = "filtered"
  /\ pc' = "returned_1"
  /\ UNCHANGED <<results, recommendations, select_unchanged>>

\* The recommendations are written: return 0.
WriteStrategies ==
  /\ pc = "filtered"
  /\ pc' = "returned_0"
  /\ UNCHANGED <<results, recommendations, select_unchanged>>

NextSelect ==
  \/ MissingCandidates
  \/ TestStrategies
  \/ Filter
  \/ WriteFails
  \/ WriteStrategies

SpecSelect == InitSelect /\ [][NextSelect]_vars

---------------------------------------------------------------------------
(* backtest.cxx: main, lines 305-375 *)

\* The first symbols of the stocks array, in its order.
stocks == <<"AAPL", "AMZN", "ASML">>

\* The fields of a backtest_result that main orders and reports by; the
\* percentages are whole numbers here.
backtest_result(symbol, trade_count, win_rate_pct, max_intraday_gain_pct) ==
  [symbol |-> symbol, trade_count |-> trade_count,
   win_rate_pct |-> win_rate_pct,
   max_intraday_gain_pct |-> max_intraday_gain_pct]

\* What run_backtest may return for one symbol: no trade, or 5 trades with
\* 40% or 60% of wins, and a best intraday gain of 0, 1 or 2 percent.
RunResults(symbol) ==
  {backtest_result(symbol, tw[1], tw[2], g) :
     tw \in {<<0, 0>>, <<5, 40>>, <<5, 60>>}, g \in {0, 1, 2}}

\* The comparison ordering the results by increasing gain.
by_max_intraday_gain_ascending(a, b) ==
  a.max_intraday_gain_pct < b.max_intraday_gain_pct

\* The comparison given to std::ranges::sort.
by_max_intraday_gain(a, b) ==
  a.max_intraday_gain_pct > b.max_intraday_gain_pct

\* What std::ranges::sort may leave: any arrangement of rs in which no
\* element comes before one that the comparison puts first.  The sort is not
\* stable, so equal elements may come out in any order.
sorted(rs) ==
  {[k \in DOMAIN rs |-> rs[f[k]]] :
     f \in {g \in [DOMAIN rs -> DOMAIN rs] :
              /\ \A a, b \in DOMAIN rs : a # b => g[a] # g[b]
              /\ \A a, b \in DOMAIN rs :
                   a < b => ~by_max_intraday_gain(rs[g[b]], rs[g[a]])}}

InitReport ==
  /\ pc = "report_main"
  /\ bars = <<>>
  /\ i = 0
  /\ in_position = FALSE
  /\ current_position = NoPosition
  /\ entry_bar_idx = 0
  /\ trades = <<>>
  /\ positions_opened = 0
  /\ analysis = NoAnalysis
  /\ result = new_result(bars)
  /\ exit_result = NoExitResult
  /\ NoProbe

\* The loop over stocks: one run_backtest per symbol, pushed in array order.
RunBacktests ==
  /\ pc = "report_main"
  /\ results' \in {rs \in [DOMAIN stocks -> UNION {RunResults(stocks[k]) : k \in DOMAIN stocks}] :
                      \A k \in DOMAIN stocks : rs[k].symbol = stocks[k]}
  /\ pc' = "ran"
  /\ UNCHANGED <<recommendations, select_unchanged>>

SortResults ==
  /\ pc = "ran"
  /\ results' \in sorted(results)
  /\ pc' = "sorted"
  /\ UNCHANGED <<recommendations, select_unchanged>>

\* The JSON or the table is printed from results in their order.
PrintResults ==
  /\ pc = "sorted"
  /\ pc' = "reported"
  /\ UNCHANGED <<results, recommendations, select_unchanged>>

NextReport ==
  \/ RunBacktests
  \/ SortResults
  \/ PrintResults

SpecReport == InitReport /\ [][NextReport]_vars

\* The two programs that hand a result list to a writer.
SpecOrder == (InitSelect \/ InitReport) /\ [][NextSelect \/ NextReport]_vars

---------------------------------------------------------------------------
(* Properties *)

\* The calendar date of bars[k]: the first 10 characters of its timestamp.
DateOf(bs, k) == substr(chars(Bar(bs, k).timestamp), 0, 10)

\* C1: at every simulated index at most one position is open: the positions
\* created so far exceed the recorded trades by at most one, by exactly one
\* while in_position holds, so a position is created only after the previous
\* one was closed and its trade recorded.
C1_AtMostOneOpen ==
  /\ positions_opened - Len(trades) \in {0, 1}
  /\ in_position <=> (positions_opened = Len(trades) + 1)

\* A second position is open after the first was closed and recorded.
C1_Witness ==
  in_position /\ positions_opened = 2 /\ Len(trades) = 1

\* C2: while a position is open, processing a bar never lowers trailing_stop.
C2_TrailingMonotonic ==
  [][in_position =>
       current_position'.trailing_stop >= current_position.trailing_stop]_vars

\* The position is still open after a bar whose close was above the entry
\* price but whose candidate stop was below the ratcheted trailing stop.
C2_Witness ==
  /\ pc = "loop" /\ in_position /\ i > entry_bar_idx + 1
  /\ is_valid(Bar(bars, i - 1))
  /\ Bar(bars, i - 1).close > current_position.entry_price
  /\ Bar(bars, i - 1).close * (Scale - trailing_stop_pct)
       < current_position.trailing_stop

\* C3: when is_entry accepts on a valid signal bar i >= 21 while no position
\* is held and a valid bars[i+1] exists, a position is opened; every position
\* opened at index i has entry_price = bars[i+1].open, and its three levels are
\* entry * (1 + 0.0125), entry * (1 - 0.0125) and entry * (1 - 0.01) of that
\* fill price.
C3_EntryFillsAtNextOpen ==
  [][LET accepted == /\ pc = "loop" /\ i < Len(bars) /\ is_valid(Bar(bars, i))
                     /\ i >= 21 /\ is_entry(SubSeq(bars, i - 19, i + 1))
         fillable == i + 1 < Len(bars) /\ is_valid(Bar(bars, i + 1))
         fill     == Bar(bars, i + 1).open
     IN  /\ (~in_position /\ accepted /\ fillable) => in_position'
         /\ (~in_position /\ in_position') =>
              /\ accepted /\ fillable
              /\ entry_bar_idx' = i + 1
              /\ current_position'.entry_price = fill
              /\ current_position'.take_profit = fill * Scale + fill * take_profit_pct
              /\ current_position'.stop_loss = fill * Scale - fill * stop_loss_pct
              /\ current_position'.trailing_stop = fill * Scale - fill * trailing_stop_pct
    ]_vars

\* A position has just been filled at a price that is none of the signal
\* bar's prices.
C3_Witness ==
  /\ pc = "loop" /\ in_position /\ i = entry_bar_idx
  /\ current_position.entry_price = Bar(bars, i).open
  /\ LET signal == Bar(bars, i - 1)
     IN  current_position.entry_price \notin
           {signal.open, signal.high, signal.low, signal.close, signal.vwap}

\* C4 as claimed: a trade closed by a price rule on signal bar i has
\* exit_price = bars[i+1].open.
C4_ExitFillsAtNextOpen ==
  \A k \in 1..Len(trades) :
    (trades[k].cause # "none" /\ trades[k].exit_bar + 1 < Len(bars)) =>
      trades[k].exit_price = Bar(bars, trades[k].exit_bar + 1).open

\* Every bar that may follow a prefix: any shape, on the first or second day.
AltBars == {WithStamp(sh, ts) : sh \in Shapes, ts \in {"on", "next"}}

\* The series that agree with bs on bars 0..k: the prefix alone, and the
\* prefix followed by any one bar.
AltSeries(bs, k) ==
  {SubSeq(bs, 1, k + 1)} \cup {SubSeq(bs, 1, k + 1) \o <<b>> : b \in AltBars}

\* C5 as claimed: every series that agrees with the input on bars 0..i gets
\* the same decision at index i: a position is opened or not while none is
\* held, closed or not while one is held.
C5_NoLookahead ==
  AtValidBar =>
    \A alt \in AltSeries(bars, i) :
      IF Flat THEN OpensAt(alt, i) = OpensAt(bars, i)
      ELSE ClosesAt(alt, i, current_position, entry_bar_idx)
             = ClosesAt(bars, i, current_position, entry_bar_idx)

\* C5 amended: for every series that agrees with the input on bars 0..i,
\* the exit decision at index i is the same, and a position is opened at i
\* exactly when the entry rule accepts on the input's bars up to i and the
\* series has a bars[i+1] that passes is_valid: bars[i+1] decides, through its
\* existence and validity only, whether an accepted entry is filled.
C5_DecisionFromPrefix ==
  AtValidBar =>
    LET accepts == EntrySignal(bars, i)
        closes  == ClosesAt(bars, i, current_position, entry_bar_idx)
    IN  \A alt \in AltSeries(bars, i) :
          IF Flat
          THEN OpensAt(alt, i) =
                 (accepts /\ Len(alt) > i + 1 /\ is_valid(Bar(alt, i + 1)))
          ELSE ClosesAt(alt, i, current_position, entry_bar_idx) = closes

\* The entry rule accepts at i with a valid bars[i+1] to fill at, while
\* another series with the same bars 0..i has an invalid bars[i+1].
C5_Witness ==
  /\ AtValidBar /\ Flat
  /\ EntrySignal(bars, i) /\ FillExists(bars, i)
  /\ \E alt \in AltSeries(bars, i) : Len(alt) > i + 1 /\ ~FillExists(alt, i)

\* C6 as claimed: every recorded trade carries one exit reason out of
\* take_profit, stop_loss, trailing_stop, risk_off and end_of_data, trades
\* closed by the session-gap rule included.
C6_EveryTradeHasReason ==
  \A k \in 1..Len(trades) :
    trades[k].cause \in
      {"take_profit", "stop_loss", "trailing_stop", "risk_off", "end_of_data"}

\* C7: for a valid bar check_exit returns take_profit iff close >= take_profit,
\* otherwise stop_loss iff close <= stop_loss, otherwise trailing_stop iff
\* close <= trailing_stop, otherwise none; for a bar failing is_valid it
\* returns none; is_exit is true exactly when check_exit is not none.
C7_CheckExitPriority ==
  pc = "probed" =>
    LET b  == Bar(bars, 0)
        c  == b.close * Scale
        tp == c >= current_position.take_profit
        sl == c <= current_position.stop_loss
        tr == c <= current_position.trailing_stop
        r  == exit_result.reason
    IN  /\ r \in exit_reason
        /\ ~is_valid(b) => r = "none"
        /\ is_valid(b) =>
             /\ r = "take_profit" <=> tp
             /\ r = "stop_loss" <=> (~tp /\ sl)
             /\ r = "trailing_stop" <=> (~tp /\ ~sl /\ tr)
             /\ r = "none" <=> (~tp /\ ~sl /\ ~tr)
        /\ exit_result.exit <=> (r # "none")

\* A valid bar closes exactly at take_profit and also at or below stop_loss
\* and trailing_stop: take_profit is returned.
C7_Witness ==
  /\ pc = "probed"
  /\ is_valid(Bar(bars, 0))
  /\ Bar(bars, 0).close * Scale = current_position.take_profit
  /\ Bar(bars, 0).close * Scale <= current_position.stop_loss
  /\ Bar(bars, 0).close * Scale <= current_position.trailing_stop
  /\ exit_result.reason = "take_profit" /\ exit_result.exit

\* C8 as claimed: no position stays open across a session boundary: a held
\* position has seen no two consecutive processed bars of different calendar
\* dates since its fill bar, for every series, invalid bars included.
C8_NoOpenAcrossSessionBoundary ==
  in_position =>
    \A j \in entry_bar_idx..(i - 2) : DateOf(bars, j) = DateOf(bars, j + 1)

\* C9 as claimed: no position remains open after a valid bar in the risk-off
\* window, later than its fill bar, has been processed.
C9_RiskOffLiquidates ==
  in_position =>
    \A j \in (entry_bar_idx + 1)..(i - 1) :
      ~(is_valid(Bar(bars, j)) /\ risk_off(chars(Bar(bars, j).timestamp)))

\* C10 as claimed: the signal bar of every opened position is inside market
\* hours and outside the risk-off window.
C10_EntryOnlyInSession ==
  in_position =>
    LET signal == chars(Bar(bars, entry_bar_idx - 1).timestamp)
    IN  market_open(signal) /\ ~risk_off(signal)

\* C11: a position is opened only from a signal at an index i with
\* 21 <= i <= len - 2, so the fill bar i + 1 of every opened position exists;
\* a signal on the last bar opens nothing.
C11_SignalIndexRange ==
  [][(~in_position /\ in_position') =>
       /\ 21 <= i /\ i <= Len(bars) - 2
       /\ entry_bar_idx' = i + 1 /\ entry_bar_idx' <= Len(bars) - 1
    ]_vars

\* The loop has passed the last bar, which is valid and on which is_entry
\* accepts, and no position was ever opened.
C11_Witness ==
  /\ pc = "loop" /\ i = Len(bars) /\ Len(bars) > 21
  /\ positions_opened = 0 /\ ~in_position
  /\ is_valid(Bar(bars, Len(bars) - 1))
  /\ is_entry(SubSeq(bars, Len(bars) - 20, Len(bars)))

\* C13: run_backtest on zero bars returns a result with bar_count 0,
\* trade_count 0 and every statistic zero, and records no trade.
C13_EmptyInput ==
  (pc = "done" /\ bars = <<>>) =>
    /\ trades = <<>>
    /\ result.bar_count = 0 /\ result.trade_count = 0
    /\ result.best_gain_duration = 0 /\ result.worst_loss_duration = 0
    /\ \A f \in {"best_gain_pct", "worst_loss_pct", "avg_gain_pct",
                 "win_rate_pct", "profit_factor", "suggested_tp_pct",
                 "suggested_sl_pct", "max_intraday_gain_pct",
                 "max_intraday_loss_pct"} : result[f].n = 0
    /\ result.top_entry.bar_idx = 0 /\ result.top_entry.gain_pct.n = 0

\* run_backtest has returned from a series of zero bars.
C13_Witness ==
  pc = "done" /\ bars = <<>> /\ Len(bars) = 0

\* C15: a bar failing is_valid changes neither the position nor the trade
\* list when the loop reaches it; a position is opened only on a valid signal
\* bar with a valid fill bar; a price exit closes only on a valid bar; and the
\* series is never changed, so the window of a later signal bar is the same
\* 21 positions of the series, invalid bars included.
C15_InvalidBarSkipped ==
  [][/\ (pc = "loop" /\ i < Len(bars) /\ ~is_valid(Bar(bars, i))) =>
          /\ in_position' = in_position /\ trades' = trades
          /\ current_position' = current_position /\ i' = i + 1
     /\ (~in_position /\ in_position') =>
          /\ is_valid(Bar(bars, i)) /\ is_valid(Bar(bars, i + 1))
          /\ is_entry([k \in 1..21 |-> Bar(bars, i - 21 + k)])
     /\ (Len(trades') > Len(trades) /\ trades'[Len(trades')].cause # "none") =>
          is_valid(Bar(bars, trades'[Len(trades')].exit_bar))
     /\ bars' = bars
    ]_vars

\* A position is still open after the loop passed an invalid bar whose close
\* is at or below its stop_loss.
C15_Witness ==
  /\ pc = "loop" /\ in_position /\ i - 1 > entry_bar_idx
  /\ ~is_valid(Bar(bars, i - 1))
  /\ Bar(bars, i - 1).close * Scale <= current_position.stop_loss

\* The last n bars of history all pass is_valid (n <= Len(history)).
Trailing(bs, n) ==
  \A k \in (Len(bs) - n + 1)..Len(bs) : is_valid(bs[k])

\* The sum of f over the n bars of history that end m bars before the last.
FieldSum(bs, f, n, m) ==
  LET last == Len(bs) - m
      sums[k \in 0..n] == IF k = 0 THEN 0 ELSE sums[k - 1] + bs[last - k + 1][f]
  IN  sums[n]

\* C14: each entry rule rejects a history shorter than its lookback (20 for
\* volume_surge_dip and mean_reversion, 21 for sma_crossover, 2 for price_dip,
\* 25 for volatility_breakout); is_entry accepts only through a rule whose
\* lookback the history reaches, so it rejects below the smallest of them; and
\* run_backtest on a series shorter than its lookback returns no trade.
C14_InsufficientData ==
  /\ pc = "probed_entry" =>
       /\ Len(bars) < 20 => ~verdict.volume_surge_dip /\ ~verdict.mean_reversion
       /\ Len(bars) < 21 => ~verdict.sma_crossover
       /\ Len(bars) < 2 => ~verdict.price_dip /\ ~verdict.is_entry
       /\ Len(bars) < 25 => ~verdict.volatility_breakout
       /\ verdict.is_entry =>
            \/ Len(bars) >= 20 /\ (verdict.volume_surge_dip \/ verdict.mean_reversion)
            \/ Len(bars) >= 21 /\ verdict.sma_crossover
            \/ Len(bars) >= 2 /\ verdict.price_dip
            \/ Len(bars) >= 25 /\ verdict.volatility_breakout
  /\ (pc \in {"start", "loop", "done"} /\ Len(bars) < 21) =>
       trades = <<>> /\ ~in_position

\* One bar that drops by 1.5% is the whole history: price_dip and is_entry
\* have rejected it.
C14_Witness ==
  /\ pc = "probed_entry" /\ Len(bars) = 1
  /\ is_valid(bars[1]) /\ bars[1].close * 1000 = bars[1].open * 985
  /\ ~verdict.price_dip /\ ~verdict.is_entry

\* C16: volume_surge_dip accepts iff the history has 20 bars, its last 20 are
\* valid, the current volume is strictly above 2.0 times the average of the 20
\* volumes and (close - open) / open * 100 of the current bar is strictly
\* below -1.0.
C16_VolumeSurgeDip ==
  pc = "probed_entry" =>
    LET current == bars[Len(bars)]
    IN  verdict.volume_surge_dip <=>
          /\ Len(bars) >= 20 /\ Trailing(bars, 20)
          /\ FieldSum(bars, "volume", 20, 0) > 0
          /\ RatLess(Rat(2 * FieldSum(bars, "volume", 20, 0), 20),
                     Rat(current.volume, 1))
          /\ RatLess(Rat((current.close - current.open) * 100, current.open),
                     Rat(-1, 1))

\* 20 valid bars whose current bar drops by 1.5% on a volume of exactly twice
\* the average: rejected.
C16_Witness ==
  /\ pc = "probed_entry" /\ Len(bars) = 20 /\ Trailing(bars, 20)
  /\ bars[20].volume * 20 = 2 * FieldSum(bars, "volume", 20, 0)
  /\ bars[20].volume > 0
  /\ bars[20].close * 1000 = bars[20].open * 985
  /\ ~verdict.volume_surge_dip

\* 400 times the population variance of the last 20 closes, in price units
\* squared: 20 * (sum of squares) - (sum)^2.
Variance400(bs) ==
  LET last == Len(bs)
      squares[k \in 0..20] ==
        IF k = 0 THEN 0
        ELSE squares[k - 1] + bs[last - k + 1].close * bs[last - k + 1].close
  IN  20 * squares[20] - FieldSum(bs, "close", 20, 0) * FieldSum(bs, "close", 20, 0)

\* C17 as claimed: mean_reversion accepts iff the history has 20 bars, its
\* last 20 are valid, the population standard deviation of the last 20 closes
\* exceeds 0.0001, the current close is below their mean and
\* (close - mean)^2 > 4 * variance.
C17_MeanReversion ==
  pc = "probed_entry" =>
    LET below == 20 * bars[Len(bars)].close - FieldSum(bars, "close", 20, 0)
        \* 400 * (0.0001 * price_unit)^2, rounded down
        threshold == IF price_unit <= 10000
                     THEN 400 \div ((10000 \div price_unit) * (10000 \div price_unit))
                     ELSE 400 * (price_unit \div 10000) * (price_unit \div 10000)
    IN  verdict.mean_reversion <=>
          /\ Len(bars) >= 20 /\ Trailing(bars, 20)
          /\ Variance400(bars) > threshold
          /\ below < 0
          /\ below * below > 4 * Variance400(bars)

\* C18: sma_crossover accepts iff the history has 21 bars, its last 21 are
\* valid, the 10-bar average of closes ending at the previous bar is at most
\* the 20-bar average ending there, and the 10-bar average ending at the
\* current bar is strictly above the 20-bar average ending there.
C18_SmaCrossover ==
  pc = "probed_entry" =>
    LET sma(n, m) == Rat(FieldSum(bars, "close", n, m), n)
    IN  verdict.sma_crossover <=>
          /\ Len(bars) >= 21 /\ Trailing(bars, 21)
          /\ ~RatLess(sma(20, 1), sma(10, 1))
          /\ RatLess(sma(20, 0), sma(10, 0))

\* 21 valid bars whose two averages are equal at the previous bar and whose
\* short average is above the long one at the current bar: accepted.
C18_Witness ==
  /\ pc = "probed_entry" /\ Len(bars) = 21 /\ Trailing(bars, 21)
  /\ FieldSum(bars, "close", 10, 1) * 2 = FieldSum(bars, "close", 20, 1)
  /\ FieldSum(bars, "close", 10, 0) * 2 > FieldSum(bars, "close", 20, 0)
  /\ verdict.sma_crossover

\* C19 as claimed: a bar is valid iff high >= open, close and low, low <= open
\* and close, all four prices are positive, vwap is zero or within
\* [low, high], and the timestamp has at least 20 characters with '-' at
\* positions 4 and 7.
C19_IsValid ==
  pc = "probed_bar" =>
    LET b == bars[1]
        text == TimestampText[b.timestamp]
    IN  verdict.is_valid <=>
          /\ \A p \in {b.open, b.close, b.low} : b.high >= p
          /\ \A p \in {b.open, b.close} : b.low <= p
          /\ \A p \in {b.open, b.high, b.low, b.close} : p > 0
          /\ b.vwap = 0 \/ (b.low <= b.vwap /\ b.vwap <= b.high)
          /\ Len(text) >= 20 /\ text[5] = "-" /\ text[8] = "-"

SymbolRank(symbol) ==
  CASE symbol = "AAPL" -> 1 [] symbol = "AMZN" -> 2 [] symbol = "ASML" -> 3
    [] OTHER -> 4

Digits == <<"0", "1", "2", "3", "4", "5", "6", "7", "8", "9">>

\* The number written by the two characters at 0-based places k and k + 1 of
\* text, both digits.
TwoDigits(text, k) ==
  LET value(c) == CHOOSE d \in 0..9 : Digits[d + 1] = c
  IN  10 * value(text[k + 1]) + value(text[k + 2])

GainSum(ts, k) ==
  LET sums[m \in 0..k] ==
        IF m = 0 THEN RatZero ELSE RatAdd(sums[m - 1], ts[m].gain_pct)
  IN  sums[k]

\* a <= b for two fractions.
RatAtMost(a, b) == a.n * b.d <= b.n * a.d

C24_LevelsAndTradesFrozen ==
  [][/\ in_position =>
          LET fill == Bar(bars, entry_bar_idx).open
          IN  /\ current_position.entry_price = fill
              /\ current_position.take_profit = fill * (Scale + take_profit_pct)
              /\ current_position.stop_loss = fill * (Scale - stop_loss_pct)
              /\ current_position'.entry_price = current_position.entry_price
              /\ current_position'.take_profit = current_position.take_profit
              /\ current_position'.stop_loss = current_position.stop_loss
     /\ Len(trades') >= Len(trades)
     /\ \A k \in DOMAIN trades : trades'[k] = trades[k]
    ]_vars

\* A second position is open after a bar that raised its trailing stop above
\* the level set at the fill, and the first trade is in the list.
C24_Witness ==
  /\ pc = "loop" /\ in_position /\ i > entry_bar_idx
  /\ Len(trades) = 1
  /\ current_position.trailing_stop
       > current_position.entry_price * (Scale - trailing_stop_pct)

\* The highest close among the valid bars from..to of bs, or floor if none
\* is higher.
PeakClose(bs, from, to, floor) ==
  LET peak[k \in (from - 1)..to] ==
        IF k < from THEN floor
        ELSE IF is_valid(Bar(bs, k)) /\ Bar(bs, k).close > peak[k - 1]
             THEN Bar(bs, k).close
             ELSE peak[k - 1]
  IN  peak[to]

\* C25: on every valid bar processed while a position is open and not closed
\* on a session gap, the position after the step, whether it was closed by
\* the price check of that bar or not, has trailing_stop =
\* (1 - trailing_stop_pct) * max(entry_price, highest close of the valid bars
\* from the fill bar to that bar).
C25_TrailingTracksPeak ==
  [][LET gap_close == /\ Len(trades') = Len(trades) + 1
                      /\ trades'[Len(trades')].exit_bar = i - 1
     IN  (/\ pc = "loop" /\ in_position /\ i < Len(bars)
          /\ is_valid(Bar(bars, i)) /\ ~gap_close) =>
           current_position'.trailing_stop =
             (Scale - trailing_stop_pct)
               * PeakClose(bars, entry_bar_idx, i, current_position.entry_price)
    ]_vars

\* A position has just been closed by the take profit on a bar whose close
\* first raised the trailing stop to 0.99 of that close.
C25_Witness ==
  /\ pc = "loop" /\ ~in_position /\ trades # <<>>
  /\ trades[Len(trades)].exit_bar = i - 1
  /\ trades[Len(trades)].cause = "take_profit"
  /\ trades[Len(trades)].exit_price > trades[Len(trades)].entry_price
  /\ current_position.trailing_stop
       = trades[Len(trades)].exit_price * (Scale - trailing_stop_pct)

\* C26 as claimed: on a valid bar i >= 21 while no position is held, if any
\* of the five rules accepts on the bars 0..i and a valid bars[i+1] exists,
\* a position is opened, and a position is opened only if one of them
\* accepts.
C26_AnyRuleOnPrefix ==
  [][LET prefix == SubSeq(bars, 1, i + 1)
         any == \/ volume_surge_dip(prefix) \/ mean_reversion(prefix)
                \/ sma_crossover(prefix) \/ price_dip(prefix)
                \/ volatility_breakout(prefix)
     IN  (/\ pc = "loop" /\ ~in_position /\ i >= 21 /\ i + 1 < Len(bars)
          /\ is_valid(Bar(bars, i)) /\ is_valid(Bar(bars, i + 1))) =>
           (in_position' <=> any)
    ]_vars

\* C27: the trade list is chronological and non-overlapping.  Every recorded
\* trade has entry_bar <= exit_bar and duration_bars = exit_bar - entry_bar,
\* a difference of bar indices that never goes below zero (so the size_t
\* subtraction does not wrap, on the gap close as well), and every trade after
\* the first has an entry_bar strictly greater than the exit_bar of the trade
\* before it.
C27_TradesChronological ==
  \A k \in 1..Len(trades) :
    /\ trades[k].entry_bar <= trades[k].exit_bar
    /\ trades[k].duration_bars = trades[k].exit_bar - trades[k].entry_bar
    /\ trades[k].duration_bars >= 0
    /\ k > 1 => trades[k].entry_bar > trades[k - 1].exit_bar

\* Two trades recorded in one run, the second filled two bars after the first
\* was closed.
C27_Witness ==
  /\ Len(trades) = 2
  /\ trades[2].entry_bar = trades[1].exit_bar + 2

C29_TradePricesFromValidBars ==
  \A k \in 1..Len(trades) :
    /\ is_valid(Bar(bars, trades[k].entry_bar))
    /\ trades[k].entry_price = Bar(bars, trades[k].entry_bar).open
    /\ trades[k].entry_price > 0
    /\ is_valid(Bar(bars, trades[k].exit_bar))
    /\ trades[k].exit_price = Bar(bars, trades[k].exit_bar).close
    /\ trades[k].exit_price > 0

\* C30: with the default parameters (all positive, trailing_stop_pct below
\* stop_loss_pct) every open position has stop_loss < trailing_stop and
\* stop_loss < entry_price < take_profit; when the position is still open
\* after the Open branch has processed a valid bar, that bar's close lies
\* strictly between trailing_stop and take_profit; and a trade closed by the
\* price rule at take_profit has gain_pct > 0, one closed at stop_loss has
\* gain_pct < 0.
C30_LevelsBracketPrice ==
  /\ in_position =>
       /\ current_position.stop_loss < current_position.trailing_stop
       /\ current_position.stop_loss < current_position.entry_price * Scale
       /\ current_position.entry_price * Scale < current_position.take_profit
       /\ (i > entry_bar_idx /\ is_valid(Bar(bars, i - 1))) =>
            /\ current_position.trailing_stop < Bar(bars, i - 1).close * Scale
            /\ Bar(bars, i - 1).close * Scale < current_position.take_profit
  /\ \A k \in 1..Len(trades) :
       /\ trades[k].cause = "take_profit" =>
            /\ trades[k].exit_price > trades[k].entry_price
            /\ trades[k].gain_pct.n > 0 /\ trades[k].gain_pct.d > 0
       /\ trades[k].cause = "stop_loss" =>
            /\ trades[k].exit_price < trades[k].entry_price
            /\ trades[k].gain_pct.n < 0 /\ trades[k].gain_pct.d > 0

\* A first position was closed at its stop loss, and a second one is open
\* after its fill bar was processed and held.
C30_Witness ==
  /\ Len(trades) = 1
  /\ trades[1].cause = "stop_loss"
  /\ in_position
  /\ i > entry_bar_idx
  /\ is_valid(Bar(bars, i - 1))

====
